---- MODULE Spec2Model ----
(* Batch conversion of CBF files to EDF files, as written in                *)
(* doc/source/tutorials/convert_CBF.ipynb.  The notebook is executed top to *)
(* bottom (cells 1..5); an exception raised in a cell stops the execution.  *)
(* File names are sequences of one-character strings, the file system is a  *)
(* function from paths to entries, time is counted in hundredths of second. *)
EXTENDS Integers, Sequences, FiniteSets, TLC

\* ------------------------------------------------------------------ bounds
MaxFiles == 3       \* largest number of entries of the current directory
MaxOld == 2         \* largest number of entries of the destination directory
MaxRuns == 2        \* number of executions of the whole notebook

\* --------------------------------------------------------------- constants
ElapsedLiteral == 564   \* the literal 5.64 (seconds) of cell 5, in 1/100 s

\* ------------------------------------------------------------ file names
Ord(c) ==
  CASE c = "." -> 46 [] c = "/" -> 47 [] c = "_" -> 95
    [] c = "a" -> 97 [] c = "b" -> 98 [] c = "c" -> 99 [] c = "d" -> 100
    [] c = "e" -> 101 [] c = "f" -> 102 [] c = "l" -> 108 [] c = "m" -> 109
    [] c = "o" -> 111 [] c = "r" -> 114 [] c = "t" -> 116 [] c = "z" -> 122

CbfExt == <<".", "c", "b", "f">>
EdfExt == <<".", "e", "d", "f">>

\* names the current directory may hold before the notebook runs
CwdNames ==
  { <<"a">> \o CbfExt,
    <<"b">> \o CbfExt,
    <<"a", ".", "b">> \o CbfExt,
    CbfExt,
    <<"a">> \o EdfExt }

\* names the destination directory may hold before the notebook runs
OldNames == { <<"a">> \o EdfExt, <<"b">> \o EdfExt, <<"z">> \o EdfExt }

Range(s) == { s[k] : k \in 1..Len(s) }

\* str comparison of Python: code points, then length
RECURSIVE LexLess(_, _)
LexLess(s, t) ==
  IF s = <<>> THEN t # <<>>
  ELSE IF t = <<>> THEN FALSE
  ELSE IF Ord(Head(s)) # Ord(Head(t)) THEN Ord(Head(s)) < Ord(Head(t))
  ELSE LexLess(Tail(s), Tail(t))

RECURSIVE Insert(_, _)
Insert(x, s) ==
  IF s = <<>> THEN <<x>>
  ELSE IF LexLess(x, Head(s)) THEN <<x>> \o s
  ELSE <<Head(s)>> \o Insert(x, Tail(s))

\* the list left in the order glob returned it
SortOmitted(s) == s

\* list.sort(): the ascending arrangement of the list
RECURSIVE Sort(_)
Sort(s) == IF s = <<>> THEN <<>> ELSE Insert(Head(s), Sort(Tail(s)))

\* glob "*.cbf": a name of the directory itself, not hidden, ending in .cbf
IsPlainName(p) == "/" \notin Range(p)

FnMatch(p) ==
  /\ Len(p) >= 4
  /\ SubSeq(p, Len(p) - 3, Len(p)) = CbfExt

IsHidden(p) == p # <<>> /\ Head(p) = "."

\* index of the last occurrence of c in p, 0 when there is none
RECURSIVE RFind(_, _)
RFind(p, c) ==
  IF p = <<>> THEN 0
  ELSE IF p[Len(p)] = c THEN Len(p)
  ELSE RFind(SubSeq(p, 1, Len(p) - 1), c)

RECURSIVE Find(_, _)
Find(p, c) ==
  IF p = <<>> THEN 0
  ELSE IF Head(p) = c THEN 1
  ELSE LET r == Find(Tail(p), c) IN IF r = 0 THEN 0 ELSE r + 1

\* the name cut at its first dot, as p.split(".")[0] would
SplitRootFirstDot(p) ==
  LET dot == Find(p, ".")
  IN  IF dot > 1 THEN SubSeq(p, 1, dot - 1) ELSE p

\* os.path.splitext(p)[0]: cut at the last dot of the last component,
\* unless that component has only leading dots before it
SplitRoot(p) ==
  LET sep == RFind(p, "/")
      dot == RFind(p, ".")
  IN  IF dot > sep /\ \E k \in (sep + 1)..(dot - 1) : p[k] # "."
      THEN SubSeq(p, 1, dot - 1)
      ELSE p

\* the directory left out of the path
JoinNoDir(a, b) == b

\* os.path.join(a, b)
Join(a, b) ==
  IF b # <<>> /\ Head(b) = "/" THEN b
  ELSE IF a = <<>> \/ a[Len(a)] = "/" THEN a \o b
  ELSE a \o <<"/">> \o b

\* the destination path of cell 4
DstPath(dir, name, fmt) == Join(dir, SplitRoot(name) \o <<".">> \o fmt)

\* ------------------------------------------------------------ file system
DirEntry == [kind |-> "dir"]
SrcFile(name, st) == [kind |-> "file", fmt |-> <<"c", "b", "f">>, data |-> name, st |-> st]
OldFile == [kind |-> "file", fmt |-> <<"e", "d", "f">>, data |-> <<"o", "l", "d">>, st |-> "ok"]

\* what a .cbf entry of the current directory may be: a readable frame, a
\* file that cannot be decoded, a frame that cannot be converted, a directory
CbfEntries(n) == { SrcFile(n, "ok"), SrcFile(n, "junk"), SrcFile(n, "odd"), DirEntry }

CwdEntries(n) == IF FnMatch(n) /\ ~IsHidden(n) THEN CbfEntries(n) ELSE { SrcFile(n, "ok") }

DestDirName == <<"e", "d", "f", "_", "f", "o", "r", "m", "a", "t">>
DestFormatName == <<"e", "d", "f">>

Exists(f, p) == p \in DOMAIN f
IsDir(f, p) == p \in DOMAIN f /\ f[p].kind = "dir"
Parent(p) == LET sep == RFind(p, "/") IN IF sep = 0 THEN <<>> ELSE SubSeq(p, 1, sep - 1)

\* glob.glob("*.cbf"): the matching names of the current directory
Glob(f) == { p \in DOMAIN f : IsPlainName(p) /\ ~IsHidden(p) /\ FnMatch(p) }

Perms(S) == { s \in [1..Cardinality(S) -> S] : Range(s) = S }

\* ------------------------------------------------- the codec (fabio)
NoImg == [cls |-> <<>>, data |-> <<>>, st |-> "none"]
CanOpen(f, p) == Exists(f, p) /\ f[p].kind = "file" /\ f[p].st # "junk"
FabioOpen(f, p) == [cls |-> f[p].fmt, data |-> f[p].data, st |-> f[p].st]
CanConvert(im, fmt) == im.st = "ok"
FabioConvert(im, fmt) == [im EXCEPT !.cls = fmt]
CanSave(f, p) == (Parent(p) = <<>> \/ IsDir(f, Parent(p))) /\ ~IsDir(f, p)
FabioSave(f, p, im) ==
  [q \in DOMAIN f \cup {p} |->
     IF q = p THEN [kind |-> "file", fmt |-> im.cls, data |-> im.data, st |-> "ok"]
     ELSE f[q]]

MakeDir(f, p) == [q \in DOMAIN f \cup {p} |-> IF q = p THEN DirEntry ELSE f[q]]

\* time one file may take, in 1/100 s
Durations == {188, 282}

\* "%.1f" % (n / d), as a number of tenths; n and d in units, d > 0
Tenths(n, d) == (20 * n + d) \div (2 * d)

\* ------------------------------------------------------------------ state
VARIABLES
  fs,           \* the file system: path -> entry
  cwdWritable,  \* whether an entry can be created in the current directory
  pc,           \* the cell or statement to execute next
  files,        \* cell 1
  dest_format,  \* cell 2
  dest_dir,     \* cell 2
  i,            \* number of files the for loop has taken
  onefile,      \* loop variable
  dst_name,     \* cell 4
  img,          \* the image handle between open, convert and save
  out,          \* lines printed
  elapsed,      \* wall time of cell 4
  log,          \* codec calls of this run, in order
  mkdirs,       \* os.makedirs calls of this run
  run,          \* number of this execution of the notebook
  fs0,          \* file system when this run started
  prevFs,       \* file system when the previous run ended
  prevOk        \* whether the previous run reached the end of cell 5

vars == <<fs, cwdWritable, pc, files, dest_format, dest_dir, i, onefile, dst_name,
          img, out, elapsed, log, mkdirs, run, fs0, prevFs, prevOk>>

env == <<cwdWritable>>
hist == <<run, fs0, prevFs, prevOk>>

\* the file systems the notebook may be started on
CwdStates ==
  UNION { [S -> UNION { CwdEntries(n) : n \in S }] : S \in { T \in SUBSET CwdNames : Cardinality(T) <= MaxFiles } }

InitCwd == { f \in CwdStates : \A n \in DOMAIN f : f[n] \in CwdEntries(n) }

OldStates ==
  UNION { [{ Join(DestDirName, n) : n \in S } -> {OldFile, DirEntry}]
          : S \in { T \in SUBSET OldNames : Cardinality(T) <= MaxOld } }

InitDest ==
  { <<>> }
  \cup { [p \in {DestDirName} |-> SrcFile(DestDirName, "ok")] }
  \cup { [p \in DOMAIN o \cup {DestDirName} |-> IF p = DestDirName THEN DirEntry ELSE o[p]] : o \in OldStates }

Merge(f, g) == [p \in DOMAIN f \cup DOMAIN g |-> IF p \in DOMAIN f THEN f[p] ELSE g[p]]

Init ==
  /\ \E c \in InitCwd, d \in InitDest : fs = Merge(c, d) /\ fs0 = Merge(c, d)
  /\ cwdWritable \in BOOLEAN
  /\ (Exists(fs, DestDirName) => cwdWritable)
  /\ pc = "cell1"
  /\ files = <<>>
  /\ dest_format = <<>>
  /\ dest_dir = <<>>
  /\ i = 0
  /\ onefile = <<>>
  /\ dst_name = <<>>
  /\ img = NoImg
  /\ out = <<>>
  /\ elapsed = 0
  /\ log = <<>>
  /\ mkdirs = 0
  /\ run = 1
  /\ prevFs = <<>>
  /\ prevOk = FALSE

\* ---------------------------------------------------------------- cell 1
Cell1 ==
  /\ pc = "cell1"
  /\ \E order \in Perms(Glob(fs)) : files' = Sort(order)
  /\ out' = Append(out, [line |-> "count", n |-> Len(files')])
  /\ pc' = "cell2"
  /\ UNCHANGED <<fs, dest_format, dest_dir, i, onefile, dst_name, img, elapsed, log, mkdirs>>
  /\ UNCHANGED env /\ UNCHANGED hist

\* ---------------------------------------------------------------- cell 2
Cell2 ==
  /\ pc = "cell2"
  /\ dest_format' = DestFormatName
  /\ dest_dir' = DestDirName
  /\ pc' = "cell3"
  /\ UNCHANGED <<fs, files, i, onefile, dst_name, img, out, elapsed, log, mkdirs>>
  /\ UNCHANGED env /\ UNCHANGED hist

\* ---------------------------------------------------------------- cell 3
\* os.makedirs called without the test: it raises on an existing path
Cell3NoTest ==
  /\ pc = "cell3"
  /\ Exists(fs, dest_dir)
  /\ mkdirs' = mkdirs + 1
  /\ pc' = "aborted"
  /\ UNCHANGED <<fs, files, dest_format, dest_dir, i, onefile, dst_name, img, out, elapsed, log>>
  /\ UNCHANGED env /\ UNCHANGED hist

Cell3Skip ==
  /\ pc = "cell3"
  /\ Exists(fs, dest_dir)
  /\ pc' = "for"
  /\ UNCHANGED <<fs, files, dest_format, dest_dir, i, onefile, dst_name, img, out, elapsed, log, mkdirs>>
  /\ UNCHANGED env /\ UNCHANGED hist

Cell3Make ==
  /\ pc = "cell3"
  /\ ~Exists(fs, dest_dir)
  /\ cwdWritable
  /\ fs' = MakeDir(fs, dest_dir)
  /\ mkdirs' = mkdirs + 1
  /\ pc' = "for"
  /\ UNCHANGED <<files, dest_format, dest_dir, i, onefile, dst_name, img, out, elapsed, log>>
  /\ UNCHANGED env /\ UNCHANGED hist

Cell3Fail ==
  /\ pc = "cell3"
  /\ ~Exists(fs, dest_dir)
  /\ ~cwdWritable
  /\ mkdirs' = mkdirs + 1
  /\ pc' = "aborted"
  /\ UNCHANGED <<fs, files, dest_format, dest_dir, i, onefile, dst_name, img, out, elapsed, log>>
  /\ UNCHANGED env /\ UNCHANGED hist

\* ---------------------------------------------------------------- cell 4
\* the loop taking the first file at every iteration
ForNextFirst ==
  /\ pc = "for"
  /\ i < Len(files)
  /\ i' = i + 1
  /\ onefile' = files[1]
  /\ pc' = "dst"
  /\ UNCHANGED <<fs, files, dest_format, dest_dir, dst_name, img, out, elapsed, log, mkdirs>>
  /\ UNCHANGED env /\ UNCHANGED hist

ForNext ==
  /\ pc = "for"
  /\ i < Len(files)
  /\ i' = i + 1
  /\ onefile' = files[i + 1]
  /\ pc' = "dst"
  /\ UNCHANGED <<fs, files, dest_format, dest_dir, dst_name, img, out, elapsed, log, mkdirs>>
  /\ UNCHANGED env /\ UNCHANGED hist

ForEnd ==
  /\ pc = "for"
  /\ i >= Len(files)
  /\ pc' = "cell5"
  /\ UNCHANGED <<fs, files, dest_format, dest_dir, i, onefile, dst_name, img, out, elapsed, log, mkdirs>>
  /\ UNCHANGED env /\ UNCHANGED hist

SetDstName ==
  /\ pc = "dst"
  /\ dst_name' = DstPath(dest_dir, onefile, dest_format)
  /\ pc' = "open"
  /\ UNCHANGED <<fs, files, dest_format, dest_dir, i, onefile, img, out, elapsed, log, mkdirs>>
  /\ UNCHANGED env /\ UNCHANGED hist

Event(op, ok) == [op |-> op, file |-> onefile, path |-> dst_name, ok |-> ok]

\* a failure of open skipped: the loop goes on with the next file
OpenSkipFailure ==
  /\ pc = "open"
  /\ \E d \in Durations : elapsed' = elapsed + d
  /\ log' = Append(log, Event("open", CanOpen(fs, onefile)))
  /\ IF CanOpen(fs, onefile)
     THEN img' = FabioOpen(fs, onefile) /\ pc' = "convert"
     ELSE img' = img /\ pc' = "for"
  /\ UNCHANGED <<fs, files, dest_format, dest_dir, i, onefile, dst_name, out, mkdirs>>
  /\ UNCHANGED env /\ UNCHANGED hist

Open ==
  /\ pc = "open"
  /\ \E d \in Durations : elapsed' = elapsed + d
  /\ log' = Append(log, Event("open", CanOpen(fs, onefile)))
  /\ IF CanOpen(fs, onefile)
     THEN img' = FabioOpen(fs, onefile) /\ pc' = "convert"
     ELSE img' = img /\ pc' = "aborted"
  /\ UNCHANGED <<fs, files, dest_format, dest_dir, i, onefile, dst_name, out, mkdirs>>
  /\ UNCHANGED env /\ UNCHANGED hist

\* a failure of convert caught around the loop: cell 5 still runs
ConvertCaught ==
  /\ pc = "convert"
  /\ log' = Append(log, Event("convert", CanConvert(img, dest_format)))
  /\ IF CanConvert(img, dest_format)
     THEN img' = FabioConvert(img, dest_format) /\ pc' = "save"
     ELSE img' = img /\ pc' = "cell5"
  /\ UNCHANGED <<fs, files, dest_format, dest_dir, i, onefile, dst_name, out, elapsed, mkdirs>>
  /\ UNCHANGED env /\ UNCHANGED hist

Convert ==
  /\ pc = "convert"
  /\ log' = Append(log, Event("convert", CanConvert(img, dest_format)))
  /\ IF CanConvert(img, dest_format)
     THEN img' = FabioConvert(img, dest_format) /\ pc' = "save"
     ELSE img' = img /\ pc' = "aborted"
  /\ UNCHANGED <<fs, files, dest_format, dest_dir, i, onefile, dst_name, out, elapsed, mkdirs>>
  /\ UNCHANGED env /\ UNCHANGED hist

\* the save left out when the destination path is already taken
SaveIfAbsent ==
  /\ pc = "save"
  /\ log' = Append(log, Event("save", CanSave(fs, dst_name)))
  /\ IF CanSave(fs, dst_name)
     THEN fs' = (IF Exists(fs, dst_name) THEN fs ELSE FabioSave(fs, dst_name, img)) /\ pc' = "for"
     ELSE fs' = fs /\ pc' = "aborted"
  /\ img' = NoImg
  /\ UNCHANGED <<files, dest_format, dest_dir, i, onefile, dst_name, out, elapsed, mkdirs>>
  /\ UNCHANGED env /\ UNCHANGED hist

Save ==
  /\ pc = "save"
  /\ log' = Append(log, Event("save", CanSave(fs, dst_name)))
  /\ IF CanSave(fs, dst_name)
     THEN fs' = FabioSave(fs, dst_name, img) /\ pc' = "for"
     ELSE fs' = fs /\ pc' = "aborted"
  /\ img' = NoImg
  /\ UNCHANGED <<files, dest_format, dest_dir, i, onefile, dst_name, out, elapsed, mkdirs>>
  /\ UNCHANGED env /\ UNCHANGED hist

\* ---------------------------------------------------------------- cell 5
Cell5 ==
  /\ pc = "cell5"
  /\ out' = Append(out, [line |-> "speed", n |-> Tenths(100 * Len(files), ElapsedLiteral)])
  /\ pc' = "done"
  /\ UNCHANGED <<fs, files, dest_format, dest_dir, i, onefile, dst_name, img, elapsed, log, mkdirs>>
  /\ UNCHANGED env /\ UNCHANGED hist

\* ------------------------------------------------ running the notebook again
RunAgain ==
  /\ pc \in {"done", "aborted"}
  /\ run < MaxRuns
  /\ run' = run + 1
  /\ prevFs' = fs
  /\ prevOk' = (pc = "done")
  /\ fs0' = fs
  /\ pc' = "cell1"
  /\ files' = <<>>
  /\ dest_format' = <<>>
  /\ dest_dir' = <<>>
  /\ i' = 0
  /\ onefile' = <<>>
  /\ dst_name' = <<>>
  /\ img' = NoImg
  /\ out' = <<>>
  /\ elapsed' = 0
  /\ log' = <<>>
  /\ mkdirs' = 0
  /\ UNCHANGED <<fs>>
  /\ UNCHANGED env

Next ==
  \/ Cell1
  \/ Cell2
  \/ Cell3Skip
  \/ Cell3Make
  \/ Cell3Fail
  \/ ForNext
  \/ ForEnd
  \/ SetDstName
  \/ Open
  \/ Convert
  \/ Save
  \/ Cell5
  \/ RunAgain

Spec == Init /\ [][Next]_vars

\* ================================================================ properties
\* the name of an enumerated file without its ".cbf"
Base(name) == SubSeq(name, 1, Len(name) - 4)

\* where the output of an enumerated file belongs
OutPath(name) == DestDirName \o <<"/">> \o Base(name) \o EdfExt

\* the output an enumerated file must give
Converted(name) == [kind |-> "file", fmt |-> DestFormatName, data |-> fs0[name].data, st |-> "ok"]

Saved == { k \in 1..Len(log) : log[k].op = "save" /\ log[k].ok }
Failed == { k \in 1..Len(log) : ~log[k].ok }
Changed == { p \in DOMAIN fs : p \notin DOMAIN fs0 \/ fs[p] # fs0[p] }
HasLine(l) == \E k \in 1..Len(out) : out[k].line = l
ABCbf == <<"a", ".", "b">> \o CbfExt
ACbf == <<"a">> \o CbfExt

\* C1: after a run without failure every enumerated file has exactly one
\* output, at <destination directory>/<name without .cbf>.edf, holding its
\* conversion; two files never share a destination path; nothing is written
\* for a name that was not enumerated.
C1_OneOutputPerInput ==
  pc = "done" =>
    /\ Range(files) = Glob(fs0)
    /\ \A k \in 1..Len(files) :
         /\ Cardinality({ e \in Saved : log[e].file = files[k] }) = 1
         /\ \A e \in Saved : log[e].file = files[k] => log[e].path = OutPath(files[k])
         /\ Exists(fs, OutPath(files[k]))
         /\ fs[OutPath(files[k])] = Converted(files[k])
    /\ \A e1, e2 \in Saved : log[e1].path = log[e2].path => e1 = e2
    /\ \A e \in Saved : log[e].file \in Range(files)
    /\ \A p \in Changed : p = DestDirName \/ \E k \in 1..Len(files) : p = OutPath(files[k])

C1_Witness ==
  /\ pc = "done"
  /\ Len(files) = 3
  /\ ABCbf \in Range(files)
  /\ ACbf \in Range(files)
  /\ Cardinality(Saved) = 3

\* C2: outputs are saved in the lexicographic order of the input names.
C2_SavesInLexOrder ==
  \A e1, e2 \in Saved : e1 < e2 => LexLess(log[e1].file, log[e2].file)

C2_Witness ==
  /\ pc = "done"
  /\ Cardinality(Saved) = 3
  /\ files[1] = ABCbf
  /\ files[2] = ACbf

\* C3: when open, convert or save fails for the file at position i, the run
\* stops there: the failed call is the last codec call, the outputs of the
\* files before i are on disk, no later file is opened or written.
C3_AbortOnFirstFailure ==
  /\ \A k \in Failed : k = Len(log) /\ pc = "aborted"
  /\ (pc = "aborted" /\ Failed # {}) =>
       /\ log[Len(log)].file = files[i]
       /\ \A k \in 1..(i - 1) :
            Exists(fs, OutPath(files[k])) /\ fs[OutPath(files[k])] = Converted(files[k])
       /\ \A k \in (i + 1)..Len(files) :
            /\ \A e \in 1..Len(log) : log[e].file # files[k]
            /\ OutPath(files[k]) \notin Changed

C3_Witness ==
  /\ pc = "aborted"
  /\ Failed # {}
  /\ Len(files) = 3
  /\ i = 2
  /\ Cardinality(Saved) = 1

\* C4: whenever a file is opened for conversion the destination directory
\* exists, and it was created at most once, only when nothing was there.
C4_DestDirExistsBeforeOpen ==
  pc \in {"open", "convert", "save"} => IsDir(fs, DestDirName) /\ mkdirs <= 1

\* C5: the reported speed is the number of files divided by the time the
\* conversion loop of this run took.
C5_SpeedFromMeasuredTime ==
  (pc = "done" /\ Len(files) > 0) =>
    \E k \in 1..Len(out) :
      out[k].line = "speed" /\ out[k].n = Tenths(100 * Len(files), elapsed)

\* C6: the speed line is printed only when every enumerated file has been
\* converted and saved, and never in a run that aborted.
C6_SpeedOnlyAfterAllFiles ==
  /\ HasLine("speed") =>
       \A k \in 1..Len(files) :
         /\ \E e \in Saved : log[e].file = files[k]
         /\ Exists(fs, OutPath(files[k]))
         /\ fs[OutPath(files[k])] = Converted(files[k])
  /\ (pc = "aborted" \/ Failed # {}) => ~HasLine("speed")

C6_Witness ==
  /\ HasLine("speed")
  /\ Len(files) = 2
  /\ Cardinality(Saved) = 2

\* C7: a run that follows a complete run, on the same sources, does not fail
\* and ends with the file system the previous run left.
C7_SecondRunSame ==
  (run > 1 /\ prevOk) =>
    /\ pc # "aborted"
    /\ Failed = {}
    /\ (pc = "done" => fs = prevFs)

C7_Witness ==
  /\ run = 2
  /\ prevOk
  /\ pc = "done"
  /\ Cardinality(Saved) = 2
  /\ fs = prevFs

\* C8: a save on a path that held a file when the run started succeeds and
\* leaves the conversion of the input at that path.
C8_SaveOverwrites ==
  \A e \in 1..Len(log) :
    (log[e].op = "save" /\ Exists(fs0, log[e].path) /\ fs0[log[e].path].kind = "file") =>
      /\ log[e].ok
      /\ (pc # "save" \/ e < Len(log)) => fs[log[e].path] = Converted(log[e].file)

C8_Witness ==
  \E e \in Saved :
    /\ Exists(fs0, log[e].path)
    /\ fs0[log[e].path] = OldFile
    /\ fs[log[e].path] = Converted(log[e].file)
    /\ run = 1

\* C9: the codec calls of a run are open, convert, save of the first file,
\* then of the second, and so on; no file is opened twice.
OpOrder == <<"open", "convert", "save">>

C9_StrictlySequential ==
  /\ \A e \in 1..Len(log) :
       /\ ((e - 1) \div 3) + 1 <= Len(files)
       /\ log[e].op = OpOrder[((e - 1) % 3) + 1]
       /\ log[e].file = files[((e - 1) \div 3) + 1]
  /\ \A e1, e2 \in 1..Len(log) :
       (log[e1].op = "open" /\ log[e2].op = "open" /\ log[e1].file = log[e2].file) => e1 = e2
  /\ (img # NoImg => pc \in {"convert", "save", "aborted"})

C9_Witness ==
  /\ Len(log) = 9
  /\ pc = "for"
  /\ log[9].ok

\* C10: a step of a run never removes or changes a source file or any other
\* entry, except that it may create the destination directory or write the
\* destination path of an enumerated file; the list of files is not changed
\* after cell 1.
FrameStep ==
  /\ DOMAIN fs \subseteq DOMAIN fs'
  /\ \A p \in DOMAIN fs' :
       (p \notin DOMAIN fs \/ fs'[p] # fs[p]) =>
         \/ p = DestDirName /\ p \notin DOMAIN fs /\ fs'[p] = DirEntry
         \/ \E k \in 1..Len(files) : p = OutPath(files[k])
  /\ (pc \notin {"cell1", "done", "aborted"} => files' = files)
  /\ (pc \notin {"cell1", "done", "aborted"} => Range(files) = Glob(fs'))

C10_Frame == [][FrameStep]_vars

C10_Witness ==
  /\ pc = "done"
  /\ Cardinality(Saved) = 2
  /\ Exists(fs, <<"a">> \o EdfExt)
  /\ Exists(fs, Join(DestDirName, <<"z">> \o EdfExt))
  /\ Cardinality(Changed) = 2
====
